---- MODULE Spec2Model ----
(***************************************************************************)
(* r5d3: a controller that delegates the hosted zones of the accounts of   *)
(* an organization from a root zone (NS records) and publishes the DNS     *)
(* validation records of their ACM certificates in the root zone.          *)
(*                                                                         *)
(* The model follows src/src/main.rs (main, main_loop, discover_accounts)  *)
(* and src/src/acm.rs (find_validations).  One action is one await point   *)
(* of the program together with the synchronous code that follows it.      *)
(* The AWS services are the environment: every call draws its response     *)
(* from a small set when it is made.                                       *)
(*                                                                         *)
(* Strings the program inspects (starts_with, ends_with, trim_end_matches) *)
(* are sequences of characters.  Option<T> is a sequence of length 0       *)
(* (None) or 1 (Some).                                                     *)
(***************************************************************************)
EXTENDS Integers, Sequences, FiniteSets, TLC

\* ---------------------------------------------------------------- bounds
MaxCycles == 2
MaxZones == 2
MaxOpts == 1
MaxOptsFV == 3

\* ------------------------------------------------------- program constants
TTL == 86400

\* --------------------------------------------------------------- strings
StartsWith(s, p) ==
  /\ Len(p) <= Len(s)
  /\ SubSeq(s, 1, Len(p)) = p

EndsWith(s, suf) ==
  /\ Len(suf) <= Len(s)
  /\ SubSeq(s, Len(s) - Len(suf) + 1, Len(s)) = suf

\* A subdomain pushed with its trailing dot.
trim_end_matches_Keep(s) == s

\* zone.name().unwrap().trim_end_matches('.')
RECURSIVE trim_end_matches(_)
trim_end_matches(s) ==
  IF s # <<>> /\ s[Len(s)] = "."
    THEN trim_end_matches(SubSeq(s, 1, Len(s) - 1))
    ELSE s

Range(s) == {s[i] : i \in DOMAIN s}

\* ------------------------------------------------------ the configuration
root_domain == <<"r">>

\* --regions: None, or Some(list of region names)
RegionConfigs == {<<>>, << <<"g1", "g2">> >>}

\* ------------------------------------------------- what the services hold
\* Hosted zones of the root account, as list_hosted_zones returns them.
HZ(id, name) == [id |-> id, name |-> name]

RootListings ==
  { <<>>,
    <<HZ("Z0", <<"x", ".">>)>>,
    <<HZ("Z0", <<"x", ".">>), HZ("Z1", <<"r", ".">>), HZ("Z2", <<"r", ".", "x", ".">>)>> }

\* Accounts of the organization, as list_accounts returns them.
AccountListings == {<<>>, <<"A">>, <<"A", "B">>}

\* The environment tag of an account (organization data the program never reads).
EnvOf(a) == IF a = "A" THEN << <<"p">> >> ELSE <<>>

\* Hosted zones of a sub account.
ZoneNames == {<<"p", ".", "r", ".">>, <<"q", ".", "r", ".">>}

SubZones(a) == [owner : {a}, name : ZoneNames, private : BOOLEAN]

NoZone == [owner |-> "none", name |-> <<>>, private |-> FALSE]

\* Delegation sets of hosted zones.
DelegationSets == {<<"n1", "n2">>}

\* Domain validation options of certificates.
RR(n) == << [type |-> "CNAME", name |-> <<"_">> \o n \o <<".">>, value |-> "t"] >>

Opt(d, m, rr) == [domain |-> d, method |-> m, rr |-> rr]

Options ==
  { Opt(<<"r">>, "DNS", RR(<<"r">>)),
    Opt(<<"p", ".", "r">>, "DNS", RR(<<"p", ".", "r">>)),
    Opt(<<"r">>, "EMAIL", RR(<<"e">>)) }

OptionLists(n) == UNION {[1..k -> Options] : k \in 0..n}

\* find_validations on its own: more domains, and the subdomain lists it is given.
WideOptions ==
  Options \cup
  { Opt(<<"r", ".", "x">>, "DNS", RR(<<"r", ".", "x">>)),
    Opt(<<"r">>, "DNS", <<>>),
    Opt(<<"a", ".", "p", ".", "r">>, "DNS", RR(<<"a", ".", "p", ".", "r">>)),
    Opt(<<"x", "r">>, "DNS", RR(<<"x", "r">>)),
    Opt(<<"p", ".", "r">>, "EMAIL", <<>>) }

WideOptionLists == UNION {[1..k -> WideOptions] : k \in 0..MaxOptsFV}

SubdomainLists ==
  { <<>>,
    << <<"p", ".", "r">> >>,
    << <<"q", ".", "r">> >>,
    << <<"q", ".", "r">>, <<"p", ".", "r">> >>,
    << <<"r">> >>,
    << <<>> >> }

\* Record sets of the root account's hosted zones before the program runs.
InitialRoots ==
  { {[zid |-> "Z1", name |-> <<"p", ".", "r", ".">>, type |-> "NS",
      values |-> <<"n0">>, ttl |-> 300]} }

\* ------------------------------------------------------------- variables
VARIABLES
  dry_run, once, regions,
  pc, cycle, err,
  rid, accounts, acc,
  subdomains, zone, zoneN, cb,
  regionsLeft, ret,
  cbs, certN, optN, val,
  root,
  root0,
  resolves,
  identity,
  reads,
  computed, sent,
  expect,
  delegated,
  zoneListErr, certListErr

vars ==
  << dry_run, once, regions, pc, cycle, err, rid, accounts, acc, subdomains,
     zone, zoneN, cb, regionsLeft, ret, cbs, certN, optN, val, root, root0, resolves,
     identity, reads, computed, sent, expect, delegated, zoneListErr, certListErr >>

app == <<dry_run, once, regions>>

NoCb == [type |-> "none", name |-> <<>>, values |-> <<>>, ttl |-> 0]

\* ------------------------------------------------------------ the root zone
\* A change that adds its values to the ones the record set has.
Upsert_Merge(r, zid, b) ==
  LET old == {x \in r : x.zid = zid /\ x.name = b.name /\ x.type = b.type} IN
  (r \ old)
    \cup {[zid |-> zid, name |-> b.name, type |-> b.type,
           values |-> (IF old = {} THEN <<>> ELSE (CHOOSE x \in old : TRUE).values) \o b.values,
           ttl |-> b.ttl]}

\* A change that leaves its record set alone in the hosted zones.
Upsert_Only(r, zid, b) ==
  {[zid |-> zid, name |-> b.name, type |-> b.type, values |-> b.values, ttl |-> b.ttl]}

\* change_resource_record_sets with one UPSERT change: create or replace the
\* record set of the change's (name, type) in hosted zone zid.
Upsert(r, zid, b) ==
  {x \in r : ~(x.zid = zid /\ x.name = b.name /\ x.type = b.type)}
    \cup {[zid |-> zid, name |-> b.name, type |-> b.type,
           values |-> b.values, ttl |-> b.ttl]}

\* ------------------------------------------------------------- main_loop
\* .find(|hz| hz.name().unwrap().starts_with(&app.root_domain)): index of the
\* first hosted zone whose name starts with root_domain, 0 when there is none.
RECURSIVE FindRootZone(_, _)
FindRootZone(hzs, i) ==
  IF i > Len(hzs) THEN 0
  ELSE IF StartsWith(hzs[i].name, root_domain) THEN i
  ELSE FindRootZone(hzs, i + 1)

\* A private-zone test that never skips.
private_zone_Never(z) == FALSE

\* zone.config().unwrap().private_zone()
private_zone(z) == z.private

\* An NS change batch with a TTL of five minutes.
NsBatch_ShortTtl(z, nsrr) == [type |-> "NS", name |-> z.name, values |-> nsrr, ttl |-> 300]

\* The NS change batch of a zone.
NsBatch(z, nsrr) == [type |-> "NS", name |-> z.name, values |-> nsrr, ttl |-> TTL]

\* The change batch of a validation option's resource record.
ValidationBatch(rr) ==
  [type |-> rr.type, name |-> rr.name, values |-> <<rr.value>>, ttl |-> TTL]

\* A filter that forgets the promoted subdomains.
NoSubdomainMatches_Ignore(domain, subs) == TRUE

\* subdomains.iter().find(|s| domain.ends_with(*s)).is_none()
NoSubdomainMatches(domain, subs) ==
  \A i \in DOMAIN subs : ~EndsWith(domain, subs[i])

\* for v in val { ... }: the change batches pushed for the options val[i..].
RECURSIVE ValidationLoop(_, _, _, _)
ValidationLoop(v, i, subs, out) ==
  IF i > Len(v) THEN out
  ELSE IF v[i].method # "DNS" THEN ValidationLoop(v, i + 1, subs, out)
  ELSE IF NoSubdomainMatches(v[i].domain, subs) /\ EndsWith(v[i].domain, root_domain)
    THEN IF v[i].rr # <<>>
           THEN ValidationLoop(v, i + 1, subs, Append(out, ValidationBatch(v[i].rr[1])))
           ELSE ValidationLoop(v, i + 1, subs, out)
  ELSE ValidationLoop(v, i + 1, subs, out)

\* Where main_loop goes after a call (the position of the next await, or how
\* the process ends).
\* .await? on the root account's list_hosted_zones: the error leaves main.
OnRootListErr == "exit_err"

\* A root zone lookup that goes on without a zone.
OnNoRootZone_GoOn == "discover"

\* .unwrap() of find's None.
OnNoRootZone == "panic"

\* A discovery failure that is logged, the pass ending early.
OnDiscoverErr_Sleep == "sleep"

\* .expect("failed to discover accounts").
OnDiscoverErr == "panic"

\* How a paginator's stream stops matching Some(Ok(item)): None, or Some(Err(_)).
StreamEnds == {"none", "err"}

\* A zone listing whose error leaves main_loop.
OnZoneStreamEnd_Abort(end) == IF end = "err" THEN "exit_err" ELSE "fv_list"

\* while let Some(Ok(zone)) = zones.next(): either way the loop is left and
\* main_loop goes on with the account's validations.
OnZoneStreamEnd(end) == "fv_list"

\* A failed call after which the validation changes found so far are applied.
OnAccountStepErr_Apply == "apply_val"

\* .await? inside `for acc in accounts`: the error leaves main_loop and main.
OnAccountStepErr == "exit_err"

\* A role check whose failure is not acted on.
AfterIdentity_Proceed(ok) == "zones"

\* match get_caller_identity: Ok(_) => go on, Err(e) => continue.
AfterIdentity(ok) == IF ok THEN "zones" ELSE "for_acc"

\* A dry-run flag that is not honoured.
DoSend_Always(dry) == TRUE

\* if app.dry_run { warn!(..) } else { ..send().await? }
DoSend(dry) == ~dry

AccountPcs ==
  {"assume", "zones", "get_zone", "apply_ns", "fv_list", "fv_describe", "apply_val"}

Terminated == pc \in {"exit_ok", "exit_err", "panic"}

Init ==
  /\ dry_run \in BOOLEAN
  /\ once \in BOOLEAN
  /\ regions \in RegionConfigs
  /\ pc = "main_loop"
  /\ cycle = 1
  /\ err = "none"
  /\ rid = "none"
  /\ accounts = <<>>
  /\ acc = "none"
  /\ subdomains = <<>>
  /\ zone = NoZone
  /\ zoneN = 0
  /\ cb = NoCb
  /\ regionsLeft = <<>>
  /\ ret = <<>>
  /\ cbs = <<>>
  /\ certN = 0
  /\ optN = 0
  /\ val = <<>>
  /\ root \in InitialRoots
  /\ root0 = root
  /\ resolves = 0
  /\ identity = "none"
  /\ reads = {}
  /\ computed = <<>>
  /\ sent = <<>>
  /\ expect = <<>>
  /\ delegated = {}
  /\ zoneListErr = {}
  /\ certListErr = FALSE

\* The locals of one account's iteration, as they are when the iteration starts.
ClearAccount ==
  /\ subdomains' = <<>>
  /\ zone' = NoZone
  /\ zoneN' = 0
  /\ cb' = NoCb
  /\ regionsLeft' = <<>>
  /\ ret' = <<>>
  /\ cbs' = <<>>
  /\ certN' = 0
  /\ optN' = 0
  /\ val' = <<>>
  /\ identity' = "none"
  /\ reads' = {}
  /\ computed' = <<>>
  /\ sent' = <<>>
  /\ expect' = <<>>
  /\ certListErr' = FALSE

AccountUnchanged ==
  UNCHANGED << subdomains, zone, zoneN, cb, regionsLeft, ret, cbs, certN, optN, val,
               identity, reads, computed, sent, expect, certListErr >>

\* A failed call ends the process: the error propagates through main_loop and main.
Fail(where, e) ==
  /\ pc' = where
  /\ err' = e

\* main.rs 86-100: list the root account's hosted zones and find the root zone.
ResolveRootZone ==
  /\ pc = "main_loop"
  /\ resolves' = resolves + 1
  /\ \/ /\ Fail(OnRootListErr, "list_root_zones")
        /\ UNCHANGED rid
     \/ \E hzs \in RootListings :
          LET i == FindRootZone(hzs, 1) IN
          IF i = 0
            THEN /\ Fail(OnNoRootZone, "no_root_zone")
                 /\ UNCHANGED rid
            ELSE /\ rid' = hzs[i].id
                 /\ pc' = "discover"
                 /\ UNCHANGED err
  /\ UNCHANGED << app, cycle, accounts, acc, root, root0, delegated, zoneListErr >>
  /\ AccountUnchanged

\* main.rs 102-104, 223-251: list the accounts of the organization.
DiscoverAccounts ==
  /\ pc = "discover"
  /\ \/ /\ Fail(OnDiscoverErr, "discover_accounts")
        /\ UNCHANGED accounts
     \/ \E l \in AccountListings :
          /\ accounts' = l
          /\ pc' = "for_acc"
          /\ UNCHANGED err
  /\ UNCHANGED << app, cycle, rid, acc, root, root0, resolves, delegated, zoneListErr >>
  /\ AccountUnchanged

\* main.rs 106-110, 218-220: the head of `for acc in accounts`.
NextAccount ==
  /\ pc = "for_acc"
  /\ IF accounts = <<>>
       THEN /\ pc' = "returned"
            /\ UNCHANGED << accounts, acc >>
       ELSE /\ acc' = Head(accounts)
            /\ accounts' = Tail(accounts)
            /\ pc' = "assume"
  /\ ClearAccount
  /\ UNCHANGED << app, cycle, err, rid, root, root0, resolves, delegated, zoneListErr >>

\* main.rs 112-124: get_caller_identity with the account's role.
AssumeRole ==
  /\ pc = "assume"
  /\ \E ok \in BOOLEAN :
       /\ identity' = IF ok THEN "ok" ELSE "err"
       /\ pc' = AfterIdentity(ok)
  /\ UNCHANGED << app, cycle, err, rid, accounts, acc, root, root0, resolves, delegated, zoneListErr,
                  subdomains, zone, zoneN, cb, regionsLeft, ret, cbs, certN, optN, val,
                  reads, computed, sent, expect, certListErr >>

\* main.rs 187-203: enter the region loop, or the single default-region call.
StartValidations ==
  /\ regionsLeft' = IF regions = <<>> THEN <<>> ELSE Tail(regions[1])
  /\ ret' = <<>>
  /\ cbs' = <<>>
  /\ certN' = 0
  /\ optN' = 0
  /\ val' = <<>>
  /\ pc' = "fv_list"

\* main.rs 126-142: the next item of the hosted-zone paginator; the loop is
\* left when the stream ends, with None or with an Err item (ends: the ways
\* the stream may stop).
ListZones(ends) ==
  /\ pc = "zones"
  /\ reads' = reads \cup {"list_hosted_zones"}
  /\ \/ \E end \in ends :
          /\ zoneListErr' = IF end = "err" THEN zoneListErr \cup {acc} ELSE zoneListErr
          /\ IF OnZoneStreamEnd(end) = "fv_list"
               THEN StartValidations
               ELSE /\ pc' = OnZoneStreamEnd(end)
                    /\ UNCHANGED << regionsLeft, ret, cbs, certN, optN, val >>
          /\ UNCHANGED << subdomains, zone, zoneN, delegated >>
     \/ \E z \in SubZones(acc) :
          /\ zoneN < MaxZones
          /\ UNCHANGED zoneListErr
          /\ zoneN' = zoneN + 1
          /\ zone' = z
          /\ IF private_zone(z)
               THEN /\ pc' = "zones"
                    /\ UNCHANGED << subdomains, delegated >>
               ELSE /\ subdomains' = Append(subdomains, trim_end_matches(z.name))
                    /\ delegated' = delegated \cup {trim_end_matches(z.name)}
                    /\ pc' = "get_zone"
          /\ UNCHANGED << regionsLeft, ret, cbs, certN, optN, val >>
  /\ UNCHANGED << app, cycle, err, rid, accounts, acc, root, root0, resolves,
                  cb, identity, computed, sent, expect, certListErr >>

\* main.rs 126-142 in the passes of Spec, where a stream that stops is not
\* told apart from one that ends: the loop is left the same way.
NextZone == ListZones({"none"})

\* main.rs 144-172: get_hosted_zone for the zone's delegation set, build the change batch.
GetHostedZone ==
  /\ pc = "get_zone"
  /\ reads' = reads \cup {"get_hosted_zone"}
  /\ \/ /\ Fail(OnAccountStepErr, "get_hosted_zone")
        /\ UNCHANGED << cb, expect >>
     \/ \E ns \in DelegationSets :
          /\ cb' = NsBatch(zone, ns)
          /\ expect' = Append(expect, NsBatch(zone, ns))
          /\ pc' = "apply_ns"
          /\ UNCHANGED err
  /\ UNCHANGED << app, cycle, rid, accounts, acc, root, root0, resolves, delegated, zoneListErr,
                  subdomains, zone, zoneN, regionsLeft, ret, cbs, certN, optN, val,
                  identity, computed, sent, certListErr >>

\* The `if app.dry_run { warn!(..) } else { change_resource_record_sets }` of
\* main.rs 174-184 and 206-216 for change batch b; `next` is where the loop goes on.
\* The histories keep the zone an NS change was built from (src).
Apply(b, src, next) ==
  IF DoSend(dry_run)
    THEN \/ /\ root' = Upsert(root, rid, b)
            /\ sent' = Append(sent, [zid |-> rid, batch |-> b])
            /\ computed' = Append(computed, [batch |-> b, src |-> src])
            /\ pc' = next
            /\ UNCHANGED err
         \/ /\ Fail(OnAccountStepErr, "upsert")
            /\ UNCHANGED << root, sent, computed >>
    ELSE /\ computed' = Append(computed, [batch |-> b, src |-> src])
         /\ pc' = next
         /\ UNCHANGED << root, sent, err >>

\* main.rs 174-185: log or upsert the NS record.
UpsertNs ==
  /\ pc = "apply_ns"
  /\ Apply(cb, zone, "zones")
  /\ UNCHANGED << app, cycle, rid, accounts, acc, root0, resolves, delegated, zoneListErr,
                  subdomains, zone, zoneN, cb, regionsLeft, ret, cbs, certN, optN, val,
                  identity, reads, expect, certListErr >>

\* acm.rs 14-21, 70 and main.rs 189-203: the next item of the certificate
\* paginator; when the stream ends, with None or with an Err item,
\* find_validations returns Ok(cbs) (ends: the ways the stream may stop).
ListCertificates(ends) ==
  /\ pc = "fv_list"
  /\ reads' = reads \cup {"list_certificates"}
  /\ \/ \E end \in ends :
        /\ certListErr' = (certListErr \/ end = "err")
        /\ ret' = ret \o cbs
        /\ cbs' = <<>>
        /\ certN' = 0
        /\ val' = <<>>
        /\ UNCHANGED optN
        /\ IF regionsLeft = <<>>
             THEN /\ pc' = "apply_val"
                  /\ UNCHANGED regionsLeft
             ELSE /\ regionsLeft' = Tail(regionsLeft)
                  /\ pc' = "fv_list"
     \/ /\ certN < MaxOpts
        /\ certN' = certN + 1
        /\ pc' = "fv_describe"
        /\ UNCHANGED << ret, cbs, optN, val, regionsLeft, certListErr >>
  /\ UNCHANGED << app, cycle, err, rid, accounts, acc, root, root0, resolves, delegated, zoneListErr,
                  subdomains, zone, zoneN, cb, identity, computed, sent, expect >>

\* acm.rs 14-21 in the passes of Spec.
NextCertificate == ListCertificates({"none"})

\* acm.rs 22-67: describe_certificate, then the loop over its validation
\* options; `lists` are the option lists the certificate may have.
Describe(lists) ==
  /\ pc = "fv_describe"
  /\ reads' = reads \cup {"describe_certificate"}
  /\ \/ /\ Fail(OnAccountStepErr, "describe_certificate")
        /\ UNCHANGED << val, cbs, optN, expect >>
     \/ \E v \in lists :
          /\ val' = v
          /\ optN' = optN + Len(v)
          /\ cbs' = ValidationLoop(v, 1, subdomains, cbs)
          /\ expect' = expect \o ValidationLoop(v, 1, subdomains, <<>>)
          /\ pc' = "fv_list"
          /\ UNCHANGED err
  /\ UNCHANGED << app, cycle, rid, accounts, acc, root, root0, resolves, delegated, zoneListErr,
                  subdomains, zone, zoneN, cb, regionsLeft, ret, certN,
                  identity, computed, sent, certListErr >>

\* acm.rs 22-67 inside main_loop's passes.
DescribeCertificate == Describe(OptionLists(MaxOpts - optN))

\* main.rs 205-218: `for cb in cbs`, one change batch at a time.
UpsertValidation ==
  /\ pc = "apply_val"
  /\ IF ret = <<>>
       THEN /\ pc' = "for_acc"
            /\ UNCHANGED << ret, root, sent, computed, err >>
       ELSE /\ Apply(Head(ret), NoZone, "apply_val")
            /\ ret' = IF pc' = "apply_val" THEN Tail(ret) ELSE ret
  /\ UNCHANGED << app, cycle, rid, accounts, acc, root0, resolves, delegated, zoneListErr,
                  subdomains, zone, zoneN, cb, regionsLeft, cbs, certN, optN, val,
                  identity, reads, expect, certListErr >>

\* A main that breaks out of its loop whatever `once` is.
AfterMainLoop_Exit ==
  /\ pc = "returned"
  /\ pc' = "exit_ok"
  /\ UNCHANGED << app, cycle, err, rid, accounts, acc, root, root0, resolves, delegated, zoneListErr >>
  /\ AccountUnchanged

\* main.rs 51-55, 60-62: main_loop returned Ok(()).
AfterMainLoop ==
  /\ pc = "returned"
  /\ pc' = IF once THEN "exit_ok" ELSE "sleep"
  /\ UNCHANGED << app, cycle, err, rid, accounts, acc, root, root0, resolves, delegated, zoneListErr >>
  /\ AccountUnchanged

\* main.rs 57, 50, 66: sleep five minutes, then call main_loop again.
Sleep ==
  /\ pc = "sleep"
  /\ cycle < MaxCycles
  /\ cycle' = cycle + 1
  /\ pc' = "main_loop"
  /\ rid' = "none"
  /\ acc' = "none"
  /\ resolves' = 0
  /\ delegated' = {}
  /\ zoneListErr' = {}
  /\ ClearAccount
  /\ UNCHANGED << app, err, accounts, root, root0 >>

Next ==
  \/ ResolveRootZone
  \/ DiscoverAccounts
  \/ NextAccount
  \/ AssumeRole
  \/ NextZone
  \/ GetHostedZone
  \/ UpsertNs
  \/ NextCertificate
  \/ DescribeCertificate
  \/ UpsertValidation
  \/ AfterMainLoop
  \/ Sleep

Spec == Init /\ [][Next]_vars

\* ------------------------------------------------------------ main's loop
\* The passes of a process run without --regions, with the steps of main
\* itself taken when they can be: a returned main_loop is followed by the
\* test of `once`, and the sleep ends.
InitLoop == Init /\ regions = <<>>

SpecLoop == InitLoop /\ [][Next]_vars /\ WF_vars(AfterMainLoop) /\ WF_vars(Sleep)

\* ------------------------------------------------------ one pass of main_loop
\* One call of main_loop in which the paginators of the hosted zones and of
\* the certificates may also stop with an Err item.
InitPass == Init /\ once

NextZoneErr == ListZones(StreamEnds)

NextCertificateErr == ListCertificates(StreamEnds)

NextPass ==
  \/ ResolveRootZone
  \/ DiscoverAccounts
  \/ NextAccount
  \/ AssumeRole
  \/ NextZoneErr
  \/ GetHostedZone
  \/ UpsertNs
  \/ NextCertificateErr
  \/ DescribeCertificate
  \/ UpsertValidation

SpecPass == InitPass /\ [][NextPass]_vars

\* ================================================================ claims

\* The failures of one account's work other than the role check.
AccountStepErrors == {"get_hosted_zone", "describe_certificate", "upsert"}

\* C1: per-account failure isolation.  When a step of account A's work (a
\* delegation-set fetch, a certificate description, a root-zone upsert) fails,
\* the accounts after A are still worked on in the same pass: the process is
\* never ended by such a failure while accounts are left to visit.
C1_AccountFailureIsolation ==
  (err \in AccountStepErrors /\ Terminated) => accounts = <<>>

\* C2: a failed root-zone upsert, or any other failure of an account's or a
\* region's work, never terminates the process.
C2_StepFailureNotFatal ==
  Terminated => err \notin AccountStepErrors

C4_RootZoneResolvedOnce ==
  /\ resolves <= 1
  /\ pc \in AccountPcs \cup {"discover", "for_acc", "returned"} =>
       /\ resolves = 1
       /\ rid = "Z1"
  /\ err = "no_root_zone" =>
       /\ pc = "panic"
       /\ resolves = 1
       /\ rid = "none"
       /\ acc = "none"
       /\ identity = "none"
       /\ reads = {}
       /\ sent = <<>>
       /\ computed = <<>>

\* C4 witness: no zone matches in the second pass.
C4_Witness ==
  /\ err = "no_root_zone"
  /\ pc = "panic"
  /\ cycle = 2
  /\ root # root0

\* C5: when the caller-identity check of an account fails, the account is
\* skipped: no zone or certificate of it is read, nothing is upserted or logged
\* for it, no error is raised, and main_loop is at the head of the account loop.
C5_UnassumableAccountSkipped ==
  identity = "err" =>
    /\ pc = "for_acc"
    /\ err = "none"
    /\ reads = {}
    /\ subdomains = <<>>
    /\ sent = <<>>
    /\ computed = <<>>

\* C5 witness: the first of two accounts was skipped, the second is still to come.
C5_Witness ==
  /\ identity = "err"
  /\ pc = "for_acc"
  /\ acc = "A"
  /\ accounts = <<"B">>

\* find_validations called once with a list of subdomains, its certificate
\* having any of the wide option lists.
InitFV ==
  /\ dry_run \in BOOLEAN
  /\ once = TRUE
  /\ regions = <<>>
  /\ pc = "fv_describe"
  /\ cycle = 1
  /\ err = "none"
  /\ rid = "Z1"
  /\ accounts = <<>>
  /\ acc = "A"
  /\ subdomains \in SubdomainLists
  /\ zone = NoZone
  /\ zoneN = 0
  /\ cb = NoCb
  /\ regionsLeft = <<>>
  /\ ret = <<>>
  /\ cbs = <<>>
  /\ certN = 1
  /\ optN = 0
  /\ val = <<>>
  /\ root \in InitialRoots
  /\ root0 = root
  /\ resolves = 1
  /\ identity = "ok"
  /\ reads = {"list_hosted_zones", "list_certificates"}
  /\ computed = <<>>
  /\ sent = <<>>
  /\ expect = <<>>
  /\ delegated = {}
  /\ zoneListErr = {}
  /\ certListErr = FALSE

DescribeCertificateFV == Describe(WideOptionLists)

ReturnFV ==
  /\ pc = "fv_list"
  /\ pc' = "apply_val"
  /\ ret' = ret \o cbs
  /\ UNCHANGED << app, cycle, err, rid, accounts, acc, root, root0, resolves, delegated, zoneListErr,
                  subdomains, zone, zoneN, cb, regionsLeft, cbs, certN, optN, val,
                  identity, reads, computed, sent, expect, certListErr >>

NextFV ==
  \/ DescribeCertificateFV
  \/ ReturnFV

SpecFV == InitFV /\ [][NextFV]_vars

\* The change batches of the NS records in a history of changes.
NsChanges(h) == {h[i] : i \in {j \in DOMAIN h : h[j].batch.type = "NS"}}

\* The batches of a history of changes, in order.
Batches(h) == [i \in DOMAIN h |-> h[i].batch]

\* C6: private-zone exclusion.  The delegation set is fetched, and an NS change
\* built, only for a non-private zone of the account being worked on; every NS
\* change logged or sent names such a zone.
C6_PrivateZoneExclusion ==
  /\ pc \in {"get_zone", "apply_ns"} =>
       /\ ~zone.private
       /\ zone.owner = acc
  /\ pc = "apply_ns" =>
       /\ cb.type = "NS"
       /\ cb.name = zone.name
  /\ \A c \in NsChanges(computed) :
       /\ ~c.src.private
       /\ c.src.owner = acc
       /\ c.batch.name = c.src.name
  /\ \A i \in DOMAIN sent :
       sent[i].batch \in {computed[j].batch : j \in DOMAIN computed}

\* C6 witness: the first zone of the account was delegated, the second is
\* private and was skipped.
C6_Witness ==
  /\ pc = "zones"
  /\ zone.private
  /\ zoneN = 2
  /\ Len(computed) = 1
  /\ Len(sent) = 1

\* C7: naming-convention filter.  For an account with environment E, every NS
\* change names the zone "E.root_domain.", and only that zone's name is among
\* the promoted subdomains.
C7_NamingConvention ==
  EnvOf(acc) # <<>> =>
    LET expected == EnvOf(acc)[1] \o <<".">> \o root_domain \o <<".">> IN
    /\ \A c \in NsChanges(computed) : c.batch.name = expected
    /\ \A i \in DOMAIN subdomains : subdomains[i] \o <<".">> = expected

\* The change a validation option calls for, and whether it is to be promoted
\* given the promoted subdomains subs.
OptionChange(o) ==
  [type |-> o.rr[1].type, name |-> o.rr[1].name, values |-> <<o.rr[1].value>>, ttl |-> 86400]

Promotable(o, subs) ==
  /\ o.method = "DNS"
  /\ o.rr # <<>>
  /\ \E k \in 0..Len(o.domain) : SubSeq(o.domain, k + 1, Len(o.domain)) = root_domain
  /\ ~\E i \in DOMAIN subs :
        \E k \in 0..Len(o.domain) : SubSeq(o.domain, k + 1, Len(o.domain)) = subs[i]

\* C8: validation promotion filter.  find_validations emits a change for an
\* option of a described certificate iff its method is DNS, its resource record
\* is present, its domain ends with root_domain and with none of the promoted
\* subdomains; the change has the record's type, name and one value, in the
\* options' order.
C8_ValidationFilter ==
  pc = "fv_list" =>
    LET Keep(o) == Promotable(o, subdomains)
        kept == SelectSeq(val, Keep)
    IN cbs = [i \in 1..Len(kept) |-> OptionChange(kept[i])]

\* C8 witness: of three options the first and the last are promoted, the
\* second, under a promoted subdomain, is not.
C8_Witness ==
  /\ pc = "fv_list"
  /\ Len(val) = 3
  /\ Len(cbs) = 2
  /\ subdomains = << <<"p", ".", "r">> >>
  /\ val[2].domain = <<"a", ".", "p", ".", "r">>
  /\ val[2].method = "DNS"
  /\ val[2].rr # <<>>

\* Whether option o of the certificate just described is excluded by one of the
\* subdomains subs.
EndsInOneOf(o, subs) ==
  \E s \in subs : \E k \in 0..Len(o.domain) : SubSeq(o.domain, k + 1, Len(o.domain)) = s

\* C9, as stated: no validation record is promoted whose domain ends with a
\* subdomain identified as delegated earlier in the pass, whichever account
\* the subdomain's zone belongs to.
C9_CycleWideExclusion ==
  (pc = "fv_list" /\ val # <<>>) =>
    \A i \in DOMAIN val :
      (val[i].method = "DNS" /\ val[i].rr # <<>> /\ EndsInOneOf(val[i], delegated))
        => OptionChange(val[i]) \notin Range(cbs)

\* The dot-stripped names of the non-private zones of the current account
\* for which an NS change was logged or sent.
OwnDelegated ==
  {SubSeq(c.src.name, 1, Len(c.src.name) - 1) : c \in NsChanges(computed)}

\* C9, amended: no validation record of an account is promoted whose domain
\* ends with the dot-stripped name of a non-private zone of the same account
\* enumerated earlier in the pass.
C9_OwnAccountExclusion ==
  (pc = "fv_list" /\ val # <<>>) =>
    \A i \in DOMAIN val :
      (val[i].method = "DNS" /\ val[i].rr # <<>> /\ EndsInOneOf(val[i], OwnDelegated))
        => OptionChange(val[i]) \notin Range(cbs)

\* C9 witness: account B, after account A, has delegated p.r and its
\* certificate has an option for p.r, which is not promoted.
C9_Witness ==
  /\ pc = "fv_list"
  /\ acc = "B"
  /\ subdomains = << <<"p", ".", "r">> >>
  /\ val = <<Opt(<<"p", ".", "r">>, "DNS", RR(<<"p", ".", "r">>))>>
  /\ cbs = <<>>

\* C10: dry-run has no side effects.  With dry_run the record sets of the root
\* zones are the ones the process started with and no upsert call is made;
\* and, with or without dry_run, when an account's work is completed the
\* changes logged or sent for it are the changes its responses call for.
C10_DryRunNoSideEffects ==
  /\ dry_run =>
       /\ root = root0
       /\ sent = <<>>
       /\ err # "upsert"
  /\ (pc = "for_acc" /\ identity = "ok") => Batches(computed) = expect

\* C10 witness: a dry run, in its second pass, has completed an account with
\* an NS change and a validation change logged.
C10_Witness ==
  /\ dry_run
  /\ cycle = 2
  /\ pc = "for_acc"
  /\ identity = "ok"
  /\ Len(computed) = 2
  /\ computed[1].batch.type = "NS"
  /\ computed[2].batch.type = "CNAME"

\* The records of the validation changes sent for the current account.
ValidationsSent == {sent[i] : i \in {j \in DOMAIN sent : sent[j].batch.type # "NS"}}

\* C11: a failure of the hosted-zone listing of an account aborts the work on
\* that account: after it no certificate of the account is listed or described
\* and no validation record is upserted for it.
C11_ZoneListingFailureAborts ==
  acc \in zoneListErr =>
    /\ "list_certificates" \notin reads
    /\ "describe_certificate" \notin reads
    /\ ValidationsSent = {}

\* C12: a failure of the certificate listing of an account, in any region,
\* aborts the rest of the account's work: no validation record of the account
\* is upserted, the ones found before the error included.
C12_CertificateListingFailureAborts ==
  certListErr => \A i \in DOMAIN sent : sent[i].batch.type = "NS"

\* The record set an upsert of change batch b leaves in hosted zone zid.
RecordOf(zid, b) ==
  [zid |-> zid, name |-> b.name, type |-> b.type, values |-> b.values, ttl |-> b.ttl]

\* C13: account isolation on zone listing.  The failure of an account's
\* hosted-zone listing does not end the pass (a pass that ends in an error
\* after it, ends with the error of another call), and every account worked
\* on after it has the changes its responses call for computed and, when not
\* dry-run, sent to the root zone and present in it.
C13_ZoneListingIsolation ==
  /\ (zoneListErr # {} /\ pc = "exit_err") => err \in AccountStepErrors
  /\ (zoneListErr \ {acc} # {} /\ pc = "for_acc" /\ identity = "ok") =>
       /\ Batches(computed) = expect
       /\ ~dry_run =>
            /\ [i \in DOMAIN sent |-> sent[i].batch] = expect
            /\ \A i \in DOMAIN sent :
                 /\ sent[i].zid = rid
                 /\ RecordOf(rid, sent[i].batch) \in root

\* C13 witness: the zone listing of account A failed; account B, worked on
\* after it, has had its NS change and a validation change upserted.
C13_Witness ==
  /\ pc = "for_acc"
  /\ acc = "B"
  /\ zoneListErr = {"A"}
  /\ identity = "ok"
  /\ ~dry_run
  /\ Len(sent) = 2
  /\ sent[1].batch.type = "NS"
  /\ sent[2].batch.type = "CNAME"
  /\ RecordOf(rid, sent[2].batch) \in root

\* C14: ordering within an account.  While the hosted zones of an account are
\* enumerated and their NS changes made, no certificate of it has been listed
\* or described and no validation change made; once the certificates are looked
\* up, the NS changes of all its enumerated non-private zones have been made, in
\* order, before any validation change, and the subdomains passed to
\* find_validations are the names of those zones with the trailing dot stripped.
C14_NsBeforeValidations ==
  /\ pc \in {"zones", "get_zone", "apply_ns"} =>
       /\ "list_certificates" \notin reads
       /\ "describe_certificate" \notin reads
       /\ \A i \in DOMAIN computed : computed[i].batch.type = "NS"
       /\ ret = <<>>
  /\ pc \in {"fv_list", "fv_describe"} =>
       /\ Len(computed) = Len(subdomains)
       /\ Len(sent) \in {0, Len(subdomains)}
  /\ pc \in {"fv_list", "fv_describe", "apply_val"} =>
       /\ Len(computed) >= Len(subdomains)
       /\ \A i \in DOMAIN computed :
            IF i <= Len(subdomains)
              THEN /\ computed[i].batch.type = "NS"
                   /\ computed[i].src.owner = acc
                   /\ ~computed[i].src.private
                   /\ computed[i].src.name = subdomains[i] \o <<".">>
                   /\ subdomains[i] # <<>>
                   /\ subdomains[i][Len(subdomains[i])] # "."
              ELSE computed[i].batch.type # "NS"

\* C14 witness: two zones of the account were delegated, q.r. then p.r., and
\* its first certificate is being described.
C14_Witness ==
  /\ pc = "fv_describe"
  /\ zoneN = 2
  /\ subdomains = << <<"q", ".", "r">>, <<"p", ".", "r">> >>
  /\ Len(computed) = 2
  /\ computed[1].batch.name = <<"q", ".", "r", ".">>

\* Whether two sent changes are for the same record set.
SameRecordSet(s, t) ==
  s.zid = t.zid /\ s.batch.name = t.batch.name /\ s.batch.type = t.batch.type

\* The root zones after the changes h[i..] are applied once more.
RECURSIVE ApplyAgain(_, _, _)
ApplyAgain(r, h, i) ==
  IF i > Len(h) THEN r ELSE ApplyAgain(Upsert(r, h[i].zid, h[i].batch), h, i + 1)

\* C15: idempotence of application.  Applying the changes sent for an account
\* a second time leaves the root zones as they are; the record set of each
\* change sent is one record whose values are exactly the values of the last
\* change sent for it (replaced, never merged with what was there).
C15_Idempotence ==
  sent # <<>> =>
    /\ ApplyAgain(root, sent, 1) = root
    /\ \A i \in DOMAIN sent :
         LET same == {x \in root : x.zid = sent[i].zid /\ x.name = sent[i].batch.name
                                     /\ x.type = sent[i].batch.type}
         IN /\ Cardinality(same) = 1
            /\ \A x \in same :
                 \E j \in DOMAIN sent :
                   /\ SameRecordSet(sent[j], sent[i])
                   /\ \A k \in DOMAIN sent : k > j => ~SameRecordSet(sent[k], sent[i])
                   /\ x.values = sent[j].batch.values
                   /\ x.ttl = sent[j].batch.ttl

\* C15 witness: in the second pass the NS change of p.r. and a validation
\* change were sent again; the root zone holds those two records, the NS
\* record with the two name servers of the delegation set only.
C15_Witness ==
  /\ cycle = 2
  /\ pc = "for_acc"
  /\ Len(sent) = 2
  /\ sent[1].batch.name = <<"p", ".", "r", ".">>
  /\ sent[1].batch.values = <<"n1", "n2">>
  /\ Cardinality(root) = 2
  /\ root # root0

\* C16: upsert-only.  A step changes the root zones only by the change it
\* sends, which creates or replaces the record set of the change's name and
\* type; every (zone, name, type) record set present before a step is present
\* after it.
C16_UpsertOnly ==
  [][/\ root' # root => Len(sent') = Len(sent) + 1
     /\ Len(sent') = Len(sent) + 1 =>
          LET s == sent'[Len(sent')] IN
          root' = {x \in root : ~(x.zid = s.zid /\ x.name = s.batch.name
                                    /\ x.type = s.batch.type)}
                    \cup {RecordOf(s.zid, s.batch)}
     /\ \A x \in root :
          \E y \in root' : y.zid = x.zid /\ y.name = x.name /\ y.type = x.type]_vars

\* C16 witness: the second pass found no account at all; the three records
\* of the first pass are still in the root zone.
C16_Witness ==
  /\ cycle = 2
  /\ pc = "returned"
  /\ acc = "none"
  /\ ~dry_run
  /\ Cardinality(root) = 3
  /\ \E x \in root : x.name = <<"q", ".", "r", ".">> /\ x.type = "NS"

\* C17: loop cadence.  With `once` the process makes one pass and never
\* sleeps; it ends successfully only with `once`, in its first pass.  A pass
\* that completes is followed by the end of the process with `once` and by a
\* sleep without it, and a sleep by the next pass.
C17_LoopCadence ==
  /\ [](once => cycle = 1 /\ pc # "sleep")
  /\ [](pc = "exit_ok" => once /\ cycle = 1 /\ err = "none")
  /\ [][/\ pc = "returned" => pc' = (IF once THEN "exit_ok" ELSE "sleep")
        /\ pc = "sleep" => pc' = "main_loop" /\ cycle' = cycle + 1
        /\ cycle' # cycle => pc = "sleep"]_vars
  /\ (pc = "returned" /\ ~once) ~> (pc = "sleep")
  /\ (pc = "returned" /\ once) ~> (pc = "exit_ok")
  /\ (pc = "sleep" /\ cycle < MaxCycles) ~> (pc = "main_loop" /\ cycle > 1)

\* C17 witness: without `once`, the second pass has completed and the
\* process sleeps again.
C17_Witness ==
  /\ ~once
  /\ cycle = 2
  /\ pc = "sleep"
  /\ err = "none"

\* C18: accounts without an environment are skipped entirely: for such an
\* account no hosted zone or certificate is read, no subdomain delegated and
\* no change computed or sent.
C18_NoEnvironmentSkipped ==
  (acc \in {"A", "B"} /\ EnvOf(acc) = <<>>) =>
    /\ reads = {}
    /\ subdomains = <<>>
    /\ computed = <<>>
    /\ sent = <<>>

\* The two upserts of the scenario of C19, for root_domain r, the zone p.r.
\* with the name servers n1 and n2, and the validation record _r. of value t.
ScenarioNs ==
  [zid |-> rid,
   batch |-> [type |-> "NS", name |-> <<"p", ".", "r", ".">>,
              values |-> <<"n1", "n2">>, ttl |-> 86400]]

ScenarioValidation ==
  [zid |-> rid,
   batch |-> [type |-> "CNAME", name |-> <<"_", "r", ".">>,
              values |-> <<"t">>, ttl |-> 86400]]

\* The account has one hosted zone, the non-private p.r., and one validation
\* option in all its certificates; the pass is not a dry run.
ScenarioAccount ==
  /\ ~dry_run
  /\ identity = "ok"
  /\ zoneN = 1
  /\ zone = [owner |-> acc, name |-> <<"p", ".", "r", ".">>, private |-> FALSE]
  /\ optN = 1

\* C19: end-to-end scenario.  One assumable account with one non-private zone
\* p.r. of two name servers and one certificate with a DNS validation option
\* for the root domain: when the certificate has been described the NS upsert
\* alone has been sent and the validation change is the one found; when the
\* account is done exactly two upserts were sent to the resolved root zone,
\* the NS record and then the validation record, both with TTL 86400.
C19_EndToEnd ==
  /\ (ScenarioAccount /\ pc = "fv_list"
        /\ val = <<[domain |-> <<"r">>, method |-> "DNS",
                    rr |-> <<[type |-> "CNAME", name |-> <<"_", "r", ".">>, value |-> "t"]>>]>>)
       => /\ sent = <<ScenarioNs>>
          /\ ret \o cbs = <<ScenarioValidation.batch>>
          /\ rid = "Z1"
  /\ (ScenarioAccount /\ pc = "for_acc" /\ Len(expect) = 2)
       => /\ sent = <<ScenarioNs, ScenarioValidation>>
          /\ rid = "Z1"
          /\ RecordOf(rid, ScenarioNs.batch) \in root
          /\ RecordOf(rid, ScenarioValidation.batch) \in root

\* C19 witness: the scenario's account is done in the first pass, its two
\* upserts sent.
C19_Witness ==
  /\ ScenarioAccount
  /\ pc = "for_acc"
  /\ cycle = 1
  /\ acc = "A"
  /\ accounts = <<>>
  /\ Len(sent) = 2
  /\ Len(expect) = 2

\* C20: the validation records of an account are collected before any is
\* applied.  While the certificates are looked up no validation change has
\* been sent or logged; the first is applied when the lookups of all the
\* regions have returned; and when a lookup has failed no validation record
\* of the account has been sent, while the NS records sent for it are in the
\* root zone.
C20_CollectedBeforeApplied ==
  /\ pc \in {"fv_list", "fv_describe"} =>
       /\ ValidationsSent = {}
       /\ \A i \in DOMAIN computed : computed[i].batch.type = "NS"
  /\ pc = "apply_val" =>
       /\ regionsLeft = <<>>
       /\ cbs = <<>>
  /\ ValidationsSent # {} =>
       /\ regionsLeft = <<>>
       /\ err # "describe_certificate"
  /\ err = "describe_certificate" =>
       /\ ValidationsSent = {}
       /\ \A i \in DOMAIN sent :
            /\ sent[i].batch.type = "NS"
            /\ RecordOf(sent[i].zid, sent[i].batch) \in root

\* C20 witness: the lookup of the first region returned a validation change,
\* the lookup of the second failed; the NS upsert made before is in the root
\* zone and nothing else was sent.
C20_Witness ==
  /\ err = "describe_certificate"
  /\ ~dry_run
  /\ regions # <<>>
  /\ regionsLeft = <<>>
  /\ ret # <<>>
  /\ Len(sent) = 1
  /\ sent[1].batch.type = "NS"
  /\ RecordOf(rid, sent[1].batch) \in root

====
